---- MODULE Spec2Model ----
(***************************************************************************)
(* The two Cloudflare Workers of the New Pallavi Boat Club site:           *)
(*   - the Content API worker (src/workers/content-api-worker.js), a       *)
(*     key-value store of five named JSON sections behind GET /content     *)
(*     and POST /content/update;                                           *)
(*   - the R2 uploader worker (src/unnamed/part_002), which writes an      *)
(*     uploaded file to an object store under a generated key.             *)
(* The workers are separate deployments that share no state: a behaviour   *)
(* follows one of them (variable worker).  Clients send one request at a   *)
(* time each; a handler runs atomically between two awaits on a store.     *)
(***************************************************************************)
EXTENDS Integers, Sequences, FiniteSets, TLC

VARIABLES
    worker,     \* "content" or "upload": the deployed worker this run follows
    env,        \* the worker's bindings (ADMIN_TOKEN, R2_PUBLIC_URL, ...)
    kv,         \* CONTENT_STORE: key -> stored text, defined on the keys held
    written,    \* history: key -> the body of the request whose put wrote it last
    bucket,     \* IMAGES_BUCKET: object key -> the object stored under it
    cl          \* per client: the request sent, the handler's position and
                \* locals while it runs, and the response once it is done

vars == <<worker, env, kv, written, bucket, cl>>

(***************************************************************************)
(* Bounds of the model.                                                    *)
(***************************************************************************)
MaxClients == 2      \* clients that may have a request in flight together
MaxTime == 1         \* Date.now() returns one of 0..MaxTime

Clients == 1..MaxClients

(***************************************************************************)
(* JavaScript values as JSON.parse produces them, and undefined.           *)
(* Numbers are the integers 0..MaxNum (finite doubles; a literal outside   *)
(* the double range is not part of the document domain).                   *)
(***************************************************************************)
MaxNum == 1

Undefined == [t |-> "undefined"]
JNull == [t |-> "null"]
JBool(b) == [t |-> "bool", b |-> b]
JNum(n) == [t |-> "num", n |-> n]
JStr(s) == [t |-> "str", s |-> s]
JArr(items) == [t |-> "arr", items |-> items]
JObj(members) == [t |-> "obj", members |-> members]
Member(k, v) == [k |-> k, val |-> v]

\* JavaScript truthiness, as `!x`, `a || b` and `if (x)` use it.
Truthy(v) ==
    CASE v.t = "undefined" -> FALSE
      [] v.t = "null" -> FALSE
      [] v.t = "bool" -> v.b
      [] v.t = "num" -> v.n # 0
      [] v.t = "str" -> v.s # ""
      [] OTHER -> TRUE

\* body.section, body.data: property access on a parsed value.  Reading a
\* property of null throws a TypeError (HasProps is FALSE); on any other
\* value a property that is not there reads as undefined.
HasProps(v) == v.t \notin {"null", "undefined"}

GetProp(v, key) ==
    IF v.t = "obj" /\ \E i \in 1..Len(v.members) : v.members[i].k = key
    THEN v.members[CHOOSE i \in 1..Len(v.members) : v.members[i].k = key].val
    ELSE Undefined

\* obj[key] = val on the members of an object: an existing key keeps its
\* place, a new key is appended (insertion order).
SetProp(members, key, val) ==
    IF \E i \in 1..Len(members) : members[i].k = key
    THEN [i \in 1..Len(members) |->
            IF members[i].k = key THEN Member(key, val) ELSE members[i]]
    ELSE Append(members, Member(key, val))

(***************************************************************************)
(* JSON text is a sequence of tokens: punctuation, the literals, a number  *)
(* in decimal, and a string as  quote, characters, quote.                  *)
(***************************************************************************)
Quote == "\""

NumToken(n) == ToString(n)
IsNumToken(tok) == \E n \in 0..MaxNum : NumToken(n) = tok
NumOfToken(tok) == CHOOSE n \in 0..MaxNum : NumToken(n) = tok

RECURSIVE JSONStringify(_)
RECURSIVE StringifyItems(_)
RECURSIVE StringifyMembers(_)

StringifyItems(items) ==
    IF items = <<>> THEN <<>>
    ELSE JSONStringify(Head(items))
         \o (IF Len(items) > 1 THEN <<",">> ELSE <<>>)
         \o StringifyItems(Tail(items))

StringifyMembers(members) ==
    IF members = <<>> THEN <<>>
    ELSE <<Quote, Head(members).k, Quote, ":">>
         \o JSONStringify(Head(members).val)
         \o (IF Len(members) > 1 THEN <<",">> ELSE <<>>)
         \o StringifyMembers(Tail(members))

JSONStringify(v) ==
    CASE v.t = "null" -> <<"null">>
      [] v.t = "bool" -> <<IF v.b THEN "true" ELSE "false">>
      [] v.t = "num" -> <<NumToken(v.n)>>
      [] v.t = "str" -> <<Quote, v.s, Quote>>
      [] v.t = "arr" -> <<"[">> \o StringifyItems(v.items) \o <<"]">>
      [] v.t = "obj" -> <<"{">> \o StringifyMembers(v.members) \o <<"}">>

\* The parser: [ok, val, rest]; ok = FALSE is the SyntaxError.
ParseFail == [ok |-> FALSE, val |-> Undefined, rest |-> <<>>]
ParseOk(v, rest) == [ok |-> TRUE, val |-> v, rest |-> rest]

RECURSIVE ParseValue(_)
RECURSIVE ParseItems(_, _)
RECURSIVE ParseMembers(_, _)

ParseItems(toks, acc) ==
    LET r == ParseValue(toks) IN
    IF ~r.ok \/ r.rest = <<>> THEN ParseFail
    ELSE IF Head(r.rest) = "]" THEN ParseOk(JArr(Append(acc, r.val)), Tail(r.rest))
    ELSE IF Head(r.rest) = "," THEN ParseItems(Tail(r.rest), Append(acc, r.val))
    ELSE ParseFail

ParseMembers(toks, acc) ==
    IF Len(toks) < 5 \/ toks[1] # Quote \/ toks[3] # Quote \/ toks[4] # ":"
    THEN ParseFail
    ELSE LET key == toks[2]
             r == ParseValue(SubSeq(toks, 5, Len(toks)))
         IN  IF ~r.ok \/ r.rest = <<>> THEN ParseFail
             ELSE IF Head(r.rest) = "}"
                  THEN ParseOk(JObj(SetProp(acc, key, r.val)), Tail(r.rest))
             ELSE IF Head(r.rest) = ","
                  THEN ParseMembers(Tail(r.rest), SetProp(acc, key, r.val))
             ELSE ParseFail

ParseValue(toks) ==
    IF toks = <<>> THEN ParseFail
    ELSE LET h == Head(toks)
             rest == Tail(toks)
         IN  CASE h = "null" -> ParseOk(JNull, rest)
               [] h = "true" -> ParseOk(JBool(TRUE), rest)
               [] h = "false" -> ParseOk(JBool(FALSE), rest)
               [] h = Quote ->
                    IF Len(rest) >= 2 /\ rest[2] = Quote
                    THEN ParseOk(JStr(rest[1]), SubSeq(rest, 3, Len(rest)))
                    ELSE ParseFail
               [] h = "[" ->
                    IF rest # <<>> /\ Head(rest) = "]"
                    THEN ParseOk(JArr(<<>>), Tail(rest))
                    ELSE ParseItems(rest, <<>>)
               [] h = "{" ->
                    IF rest # <<>> /\ Head(rest) = "}"
                    THEN ParseOk(JObj(<<>>), Tail(rest))
                    ELSE ParseMembers(rest, <<>>)
               [] IsNumToken(h) -> ParseOk(JNum(NumOfToken(h)), rest)
               [] OTHER -> ParseFail

\* JSON.parse / request.json() / KV get with {type: 'json'}: the whole text
\* must be one value.
JSONParse(text) ==
    LET r == ParseValue(text) IN
    IF r.ok /\ r.rest = <<>> THEN [ok |-> TRUE, val |-> r.val]
    ELSE [ok |-> FALSE, val |-> Undefined]


(***************************************************************************)
(* HTTP requests and responses.                                            *)
(* A header value is a string seen as its words (separated by one space):  *)
(* "Bearer s3cret" is <<"Bearer", "s3cret">>, "" is <<>>.  request.headers *)
(* .get() of a header that is not sent, and an unbound env name, are Absent.*)
(***************************************************************************)
Absent == [present |-> FALSE, words |-> <<>>]
Str(words) == [present |-> TRUE, words |-> words]

\* truthiness of a string-or-null: null, undefined and "" are falsy
StrTruthy(h) == h.present /\ h.words # <<>>

\* String.prototype.toLowerCase on one word (the scheme spellings in use)
toLowerCase(w) == IF w \in {"Bearer", "BEARER", "bearer"} THEN "bearer" ELSE w

\* the response headers every handler spreads into its responses
corsHeaders ==
    [allowOrigin |-> "*", allowMethods |-> "GET, POST, OPTIONS",
     allowHeaders |-> "Content-Type"]

\* new Response(JSON.stringify(value), {status, headers: {'Content-Type':
\* 'application/json', ...corsHeaders}})
JsonResponse(status, value) ==
    [status |-> status, contentType |-> "application/json",
     body |-> JSONStringify(value), cors |-> corsHeaders, cacheControl |-> ""]

\* new Response(text, {status, headers: corsHeaders}): a string body is sent
\* as text/plain; a null body is empty and has no content type
TextResponse(status, text) ==
    [status |-> status, contentType |-> "text/plain",
     body |-> <<text>>, cors |-> corsHeaders, cacheControl |-> ""]

EmptyResponse(status) ==
    [status |-> status, contentType |-> "",
     body |-> <<>>, cors |-> corsHeaders, cacheControl |-> ""]

\* (mutant) an error body without its message
ErrorBodyWithoutMessage(error, message) ==
    JObj(<<Member("error", JStr(error))>>)

ErrorBody(error, message) ==
    JObj(<<Member("error", JStr(error)), Member("message", JStr(message))>>)

\* the message of the exception a failed step throws
SyntaxErrorMessage == "Unexpected end of JSON input"
TypeErrorMessage == "Cannot read properties of null"

\* new Date().toISOString() at clock reading t
toISOString(t) == "1970-01-01T00:00:00.00" \o ToString(t) \o "Z"

(***************************************************************************)
(* Content API worker                                                      *)
(***************************************************************************)
\* (mutant) the last key is left out of the list
sectionsWithoutTeam == <<"general", "about", "events", "gallery">>

\* handleGetContent: the keys read, in this order
sections == <<"general", "about", "events", "gallery", "team">>

\* handleUpdateContent: the whitelist
validSections == <<"general", "about", "events", "gallery", "team">>

\* (mutant) the whitelist test accepts any string
includesAnyString(arr, v) == v.t = "str"

\* Array.prototype.includes: strict equality with one of the elements
includes(arr, v) == v.t = "str" /\ \E i \in 1..Len(arr) : arr[i] = v.s

\* Array.prototype.join(', ')
RECURSIVE join(_)
join(arr) ==
    IF arr = <<>> THEN ""
    ELSE IF Len(arr) = 1 THEN arr[1]
    ELSE arr[1] \o ", " \o join(Tail(arr))

\* const authHeader = get('x-admin-token') || get('authorization')
authHeader(r) ==
    IF StrTruthy(r.xAdminToken) THEN r.xAdminToken ELSE r.authorization

\* the token the request provides: the header without a leading "bearer "
\* (any case), or the whole header; null when there is no header
providedToken(r) ==
    LET h == authHeader(r) IN
    IF ~StrTruthy(h) THEN Absent
    ELSE IF Len(h.words) >= 2 /\ toLowerCase(h.words[1]) = "bearer"
         THEN Str(Tail(h.words))
         ELSE h

\* (mutant) `&&` for `||`: only a token that is sent and differs is refused
UnauthorizedOnlyIfSent(e, r) ==
    /\ StrTruthy(e.ADMIN_TOKEN)
    /\ StrTruthy(providedToken(r))
    /\ providedToken(r) # e.ADMIN_TOKEN

\* the 401 test: a token is bound, and the request's is missing or differs
Unauthorized(e, r) ==
    /\ StrTruthy(e.ADMIN_TOKEN)
    /\ \/ ~StrTruthy(providedToken(r))
       \/ providedToken(r) # e.ADMIN_TOKEN

\* !body.section || !body.data
MissingFields(body) ==
    ~Truthy(GetProp(body, "section")) \/ ~Truthy(GetProp(body, "data"))

\* (mutant) the body is read and validated before the token is tested
UpdateDecisionBodyFirst(e, r) ==
    LET parsed == JSONParse(r.body)
        body == parsed.val
        Reject(resp) == [put |-> FALSE, resp |-> resp,
                         section |-> "", data |-> Undefined]
    IN  IF ~parsed.ok
        THEN Reject(JsonResponse(500,
                 ErrorBody("Internal Server Error", SyntaxErrorMessage)))
        ELSE IF ~HasProps(body)
        THEN Reject(JsonResponse(500,
                 ErrorBody("Internal Server Error", TypeErrorMessage)))
        ELSE IF MissingFields(body)
        THEN Reject(JsonResponse(400,
                 ErrorBody("Bad Request", "Missing required fields: section and data")))
        ELSE IF ~includes(validSections, GetProp(body, "section"))
        THEN Reject(JsonResponse(400,
                 ErrorBody("Bad Request",
                     "Invalid section. Must be one of: " \o join(validSections))))
        ELSE IF Unauthorized(e, r)
        THEN Reject(JsonResponse(401,
                 ErrorBody("Unauthorized", "Missing or invalid admin token")))
        ELSE [put |-> TRUE, resp |-> EmptyResponse(0),
              section |-> GetProp(body, "section").s,
              data |-> GetProp(body, "data")]

\* handleUpdateContent up to the store write: the response that ends the
\* request there, or the section and data to be put.
UpdateDecision(e, r) ==
    LET parsed == JSONParse(r.body)
        body == parsed.val
        Reject(resp) == [put |-> FALSE, resp |-> resp,
                         section |-> "", data |-> Undefined]
    IN  IF Unauthorized(e, r)
        THEN Reject(JsonResponse(401,
                 ErrorBody("Unauthorized", "Missing or invalid admin token")))
        ELSE IF ~parsed.ok
        THEN Reject(JsonResponse(500,
                 ErrorBody("Internal Server Error", SyntaxErrorMessage)))
        ELSE IF ~HasProps(body)
        THEN Reject(JsonResponse(500,
                 ErrorBody("Internal Server Error", TypeErrorMessage)))
        ELSE IF MissingFields(body)
        THEN Reject(JsonResponse(400,
                 ErrorBody("Bad Request", "Missing required fields: section and data")))
        ELSE IF ~includes(validSections, GetProp(body, "section"))
        THEN Reject(JsonResponse(400,
                 ErrorBody("Bad Request",
                     "Invalid section. Must be one of: " \o join(validSections))))
        ELSE [put |-> TRUE, resp |-> EmptyResponse(0),
              section |-> GetProp(body, "section").s,
              data |-> GetProp(body, "data")]

\* the acknowledgment of a completed update, sent at clock reading t
UpdateSuccess(section, t) ==
    JsonResponse(200,
        JObj(<<Member("success", JBool(TRUE)),
               Member("message", JStr("Section '" \o section \o "' updated successfully")),
               Member("timestamp", JStr(toISOString(t)))>>))

\* a token sequence as the one string it spells
RECURSIVE Flatten(_)
Flatten(toks) ==
    IF toks = <<>> THEN "" ELSE Head(toks) \o Flatten(Tail(toks))

\* (mutant) get(section) without {type: 'json'}: the stored text comes back
\* as a string
KvGetText(store, section) ==
    IF section \in DOMAIN store
    THEN [ok |-> TRUE, val |-> JStr(Flatten(store[section]))]
    ELSE [ok |-> TRUE, val |-> JNull]

\* env.CONTENT_STORE.get(section, {type: 'json'}): null for a key that is
\* not held, else the parsed text (ok = FALSE when the parse throws)
KvGetJson(store, section) ==
    IF section \in DOMAIN store THEN JSONParse(store[section])
    ELSE [ok |-> TRUE, val |-> JNull]

\* (mutant) the write keeps what the key already holds
KvPutIfAbsent(store, key, text) == store @@ (key :> text)

\* env.CONTENT_STORE.put(key, text)
KvPut(store, key, text) == (key :> text) @@ store

\* the keys of a JSON object
KeysOf(v) == {v.members[i].k : i \in 1..Len(v.members)}

\* the store contents snap agree with the mapping read so far, content, on
\* the first k keys of the loop
AgreesWith(snap, content, k) ==
    \A i \in 1..k :
        LET key == sections[i] IN
        IF key \in KeysOf(JObj(content))
        THEN key \in DOMAIN snap
             /\ JSONParse(snap[key]).val = GetProp(JObj(content), key)
        ELSE key \notin DOMAIN snap

\* (mutant) the mapping read is not returned
GetSuccessEmpty(content) ==
    [JsonResponse(200, JObj(<<>>)) EXCEPT
        !.cacheControl = "public, max-age=60, s-maxage=300"]

\* the 200 of GET /content, with the cache directive fetch adds to it
GetSuccess(content) ==
    [JsonResponse(200, JObj(content)) EXCEPT
        !.cacheControl = "public, max-age=60, s-maxage=300"]

(***************************************************************************)
(* Client records.  loc holds the handler's locals while it awaits a store *)
(* and calls counts the store calls the handler has made for the request.  *)
(* History, which no handler reads: a GET keeps the set stale of the keys  *)
(* that a put has written after the GET read them, the store contents      *)
(* cands it may still be a snapshot of and, once finished, whether none was *)
(* left (torn); an update keeps whether it was in flight together with      *)
(* another update of its key (overlapped).                                  *)
(***************************************************************************)
NoReq == [method |-> "", path |-> ""]
NoLoc == [op |-> ""]
NoResp == EmptyResponse(0)
IdleClient ==
    [pc |-> "idle", req |-> NoReq, loc |-> NoLoc, resp |-> NoResp, calls |-> 0]

CanSend(c) == cl[c].pc \in {"idle", "done"}

Done(r, loc, resp, calls) ==
    [pc |-> "done", req |-> r, loc |-> loc, resp |-> resp, calls |-> calls]

\* (mutant) no preflight test: OPTIONS falls through the routes to the 404
ContentOptionsNotFound(c, r) ==
    /\ worker = "content"
    /\ CanSend(c)
    /\ r.method = "OPTIONS"
    /\ cl' = [cl EXCEPT ![c] = [pc |-> "done", req |-> r, loc |-> [op |-> ""],
                                resp |-> TextResponse(404, "Not Found"),
                                calls |-> 0]]
    /\ UNCHANGED <<worker, env, kv, written, bucket>>

\* fetch, line 23: the CORS preflight, answered before any routing
ContentOptions(c, r) ==
    /\ worker = "content"
    /\ CanSend(c)
    /\ r.method = "OPTIONS"
    /\ cl' = [cl EXCEPT ![c] = Done(r, NoLoc, EmptyResponse(200), 0)]
    /\ UNCHANGED <<worker, env, kv, written, bucket>>

\* fetch, line 31: GET /content enters handleGetContent
GetContentStart(c, r) ==
    /\ worker = "content"
    /\ CanSend(c)
    /\ r.method = "GET" /\ r.path = "/content"
    /\ cl' = [cl EXCEPT ![c] =
                [pc |-> "read", req |-> r, resp |-> NoResp, calls |-> 0,
                 loc |-> [op |-> "get", k |-> 0, content |-> <<>>, stale |-> {},
                          cands |-> {kv}, torn |-> FALSE]]]
    /\ UNCHANGED <<worker, env, kv, written, bucket>>

\* handleGetContent, one turn of the loop: the next key is read and kept if
\* truthy; after the last key the response is built.  History: cands are the
\* contents the store has had while the GET runs that agree with what it has
\* read; a finished GET keeps only whether none is left (torn).  A read that throws is
\* rethrown to fetch, which answers 500.
GetContentRead(c) ==
    /\ worker = "content"
    /\ cl[c].pc = "read"
    /\ LET loc == cl[c].loc
           section == sections[loc.k + 1]
           got == KvGetJson(kv, section)
           content == IF Truthy(got.val)
                      THEN SetProp(loc.content, section, got.val)
                      ELSE loc.content
           cands == {snap \in loc.cands : AgreesWith(snap, content, loc.k + 1)}
           loc2 == [loc EXCEPT !.k = loc.k + 1, !.content = content,
                               !.cands = cands]
           loc3 == [loc2 EXCEPT !.cands = {}, !.torn = (cands = {})]
           calls == cl[c].calls + 1
       IN  cl' = [cl EXCEPT ![c] =
                    IF ~got.ok
                    THEN Done(cl[c].req, loc2, JsonResponse(500,
                             ErrorBody("Internal Server Error", SyntaxErrorMessage)),
                             calls)
                    ELSE IF loc2.k = Len(sections)
                    THEN Done(cl[c].req, loc3, GetSuccess(content), calls)
                    ELSE [cl[c] EXCEPT !.loc = loc2, !.calls = calls]]
    /\ UNCHANGED <<worker, env, kv, written, bucket>>

\* fetch, line 45: POST /content/update enters handleUpdateContent, which
\* runs to its first store call or to the response that rejects the request
UpdateContentStart(c, r) ==
    /\ worker = "content"
    /\ CanSend(c)
    /\ r.method = "POST" /\ r.path = "/content/update"
    /\ LET d == UpdateDecision(env, r) IN
       cl' = [cl EXCEPT ![c] =
                IF d.put
                THEN [pc |-> "put", req |-> r, resp |-> NoResp, calls |-> 0,
                      loc |-> [op |-> "update", section |-> d.section,
                               data |-> d.data, overlapped |-> FALSE]]
                ELSE Done(r, NoLoc, d.resp, 0)]
    /\ UNCHANGED <<worker, env, kv, written, bucket>>

\* whether the GET of record g has read key s (a finished GET has read all
\* it will read)
HasRead(g, s) ==
    g.loc.op = "get"
    /\ (g.pc = "done" \/ \E i \in 1..g.loc.k : sections[i] = s)

\* history of the GET of record g when a put makes key s hold a new text:
\* s is stale if g has read it, and the store as it is now is one more of
\* the contents it has had while g runs
Overtaken(g, s, store) ==
    IF g.loc.op # "get" THEN g
    ELSE [g EXCEPT !.loc.stale = IF HasRead(g, s) THEN @ \cup {s} ELSE @,
                   !.loc.cands =
                       IF g.pc = "read" /\ AgreesWith(store, g.loc.content, g.loc.k)
                       THEN @ \cup {store} ELSE @]

\* whether the record u is an update of key s waiting on its put
PutInFlight(u, s) == u.pc = "put" /\ u.loc.section = s

\* handleUpdateContent, line 184 on: the put takes effect and the request is
\* acknowledged.  History: the key becomes stale in every GET that has read
\* it, and this update and the updates of the same key still in flight are
\* marked as having overlapped.
UpdateContentPut(c) ==
    /\ worker = "content"
    /\ cl[c].pc = "put"
    /\ \E t \in 0..MaxTime :
        LET loc == cl[c].loc
            others == {d \in Clients \ {c} : PutInFlight(cl[d], loc.section)}
        IN
        /\ kv' = KvPut(kv, loc.section, JSONStringify(loc.data))
        /\ written' = (loc.section :> cl[c].req.body) @@ written
        /\ cl' = [d \in Clients |->
                    IF d = c
                    THEN Done(cl[c].req,
                              [loc EXCEPT !.overlapped = @ \/ others # {}],
                              UpdateSuccess(loc.section, t), cl[c].calls + 1)
                    ELSE IF d \in others
                    THEN [cl[d] EXCEPT !.loc.overlapped = TRUE]
                    ELSE Overtaken(cl[d], loc.section, kv')]
    /\ UNCHANGED <<worker, env, bucket>>

\* fetch, line 50: any other method or path
ContentNotFound(c, r) ==
    /\ worker = "content"
    /\ CanSend(c)
    /\ r.method # "OPTIONS"
    /\ ~(r.method = "GET" /\ r.path = "/content")
    /\ ~(r.method = "POST" /\ r.path = "/content/update")
    /\ cl' = [cl EXCEPT ![c] = Done(r, NoLoc, TextResponse(404, "Not Found"), 0)]
    /\ UNCHANGED <<worker, env, kv, written, bucket>>

(***************************************************************************)
(* R2 uploader worker                                                      *)
(* A file name is a string seen as its pieces, "." being a piece of its    *)
(* own: "photo.png" is <<"photo", ".", "png">>.                            *)
(***************************************************************************)
\* crypto.randomUUID() returns one of these: nothing but chance keeps two
\* calls from returning the same one
UUIDs == {"1b9d6bcd", "9f3c2a7e"}

\* the uploader's own corsHeaders (no GET)
uploadCorsHeaders ==
    [allowOrigin |-> "*", allowMethods |-> "POST, OPTIONS",
     allowHeaders |-> "Content-Type"]

UploadJsonResponse(status, value) ==
    [JsonResponse(status, value) EXCEPT !.cors = uploadCorsHeaders]

\* String.prototype.split('.'): the pieces between the dots, as strings
RECURSIVE splitFrom(_, _)
splitFrom(name, segs) ==
    IF name = <<>> THEN segs
    ELSE IF Head(name) = "."
         THEN splitFrom(Tail(name), Append(segs, ""))
         ELSE splitFrom(Tail(name),
                  [segs EXCEPT ![Len(segs)] = @ \o Head(name)])

split(name) == splitFrom(name, <<"">>)

\* Array.prototype.pop: the last element
pop(arr) == arr[Len(arr)]

\* const extension = file.name.split('.').pop()
extension(file) == pop(split(file.name))

\* (mutant) the random part is left out of the key
filenameWithoutRandomId(timestamp, randomId, ext) ==
    ToString(timestamp) \o "." \o ext

\* const filename = `${timestamp}-${randomId}.${extension}`
filename(timestamp, randomId, ext) ==
    ToString(timestamp) \o "-" \o randomId \o "." \o ext

\* IMAGES_BUCKET.put(key, body, {httpMetadata}): the object is created, or
\* the object already held under the key is replaced
R2Put(objects, key, file) ==
    (key :> [body |-> file.content,
             contentType |-> file.type,
             cacheControl |-> "public, max-age=31536000, immutable"]) @@ objects

\* the public URL of an object key
publicUrl(e, key) ==
    IF StrTruthy(e.R2_PUBLIC_URL)
    THEN e.R2_PUBLIC_URL.words[1] \o key
    ELSE LET accountId == IF StrTruthy(e.CLOUDFLARE_ACCOUNT_ID)
                          THEN e.CLOUDFLARE_ACCOUNT_ID.words[1]
                          ELSE "YOUR-ACCOUNT-ID"
         IN  "https://pub-" \o accountId \o ".r2.dev/" \o key

UploadSuccess(e, key, t) ==
    UploadJsonResponse(200,
        JObj(<<Member("success", JBool(TRUE)),
               Member("url", JStr(publicUrl(e, key))),
               Member("filename", JStr(key)),
               Member("timestamp", JStr(toISOString(t)))>>))

\* formData.get('file'): null when the form has no such field, a string for
\* a text field, a File for an uploaded file
NoField == [kind |-> "null"]
TextField(s) == [kind |-> "string", s |-> s]
File(name, type, content) ==
    [kind |-> "file", name |-> name, type |-> type, content |-> content]

\* fetch, line 20: the CORS preflight
UploadOptions(c, r) ==
    /\ worker = "upload"
    /\ CanSend(c)
    /\ r.method = "OPTIONS"
    /\ cl' = [cl EXCEPT ![c] =
                Done(r, NoLoc, [EmptyResponse(200) EXCEPT !.cors = uploadCorsHeaders], 0)]
    /\ UNCHANGED <<worker, env, kv, written, bucket>>

\* fetch, line 32: neither OPTIONS nor POST
UploadMethodNotAllowed(c, r) ==
    /\ worker = "upload"
    /\ CanSend(c)
    /\ r.method \notin {"OPTIONS", "POST"}
    /\ cl' = [cl EXCEPT ![c] =
                Done(r, NoLoc, [TextResponse(405, "Method Not Allowed")
                                   EXCEPT !.cors = uploadCorsHeaders], 0)]
    /\ UNCHANGED <<worker, env, kv, written, bucket>>

\* uploads are sent while the bucket holds fewer than MaxObjects objects
MaxObjects == 1

\* (mutant) the `if (!file)` test never fires
FieldAlwaysTruthy(f) == TRUE

\* !file
FieldTruthy(f) ==
    CASE f.kind = "null" -> FALSE
      [] f.kind = "string" -> f.s # ""
      [] OTHER -> TRUE

\* handleUpload up to the key generation: the response that ends the request
\* there, if any.  A body that is no form makes formData() throw (500); a
\* missing file is 400; a text field has no name to split (500).
UploadDecision(r) ==
    IF ~r.form.ok
    THEN [put |-> FALSE, resp |-> UploadJsonResponse(500,
              ErrorBody("Internal Server Error", "Unable to parse body as form data"))]
    ELSE IF ~FieldTruthy(r.form.file)
    THEN [put |-> FALSE, resp |-> UploadJsonResponse(400,
              ErrorBody("Bad Request", "No file provided"))]
    ELSE IF r.form.file.kind # "file"
    THEN [put |-> FALSE, resp |-> UploadJsonResponse(500,
              ErrorBody("Internal Server Error", TypeErrorMessage))]
    ELSE [put |-> TRUE, resp |-> NoResp]

\* fetch, line 28: POST enters handleUpload, which runs to its store call
\* (the key generated from the clock and a random UUID) or to the response
\* that rejects the request
UploadStart(c, r) ==
    /\ worker = "upload"
    /\ CanSend(c)
    /\ r.method = "POST"
    /\ LET d == UploadDecision(r) IN
       \/ /\ ~d.put
          /\ cl' = [cl EXCEPT ![c] = Done(r, NoLoc, d.resp, 0)]
       \/ /\ d.put
          /\ Cardinality(DOMAIN bucket) < MaxObjects
          /\ \E timestamp \in 0..MaxTime, randomId \in UUIDs :
               cl' = [cl EXCEPT ![c] =
                        [pc |-> "r2put", req |-> r, resp |-> NoResp, calls |-> 0,
                         loc |-> [op |-> "upload",
                                  timestamp |-> timestamp,
                                  randomId |-> randomId,
                                  extension |-> extension(r.form.file),
                                  filename |-> filename(timestamp, randomId,
                                                        extension(r.form.file))]]]
    /\ UNCHANGED <<worker, env, kv, written, bucket>>

\* handleUpload, line 83 on: the object is written and the URL returned
UploadPut(c) ==
    /\ worker = "upload"
    /\ cl[c].pc = "r2put"
    /\ \E t \in 0..MaxTime :
        /\ bucket' = R2Put(bucket, cl[c].loc.filename, cl[c].req.form.file)
        /\ cl' = [cl EXCEPT ![c] =
                    Done(cl[c].req, cl[c].loc,
                         UploadSuccess(env, cl[c].loc.filename, t),
                         cl[c].calls + 1)]
    /\ UNCHANGED <<worker, env, kv, written>>

(***************************************************************************)
(* Store failures: a call to the key-value store or the bucket rejects.    *)
(* A call that rejects has not taken effect on the store.                  *)
(***************************************************************************)
\* error.message of the exception a store call rejects with
StoreErrorMessages == {"KV unavailable", "Network connection lost"}

\* (mutant) the catch acknowledges instead of reporting
CatchAcknowledges(message) ==
    JsonResponse(200, JObj(<<Member("success", JBool(TRUE))>>))

\* the catch blocks: 500 with error.message
CatchResponse(message) ==
    JsonResponse(500, ErrorBody("Internal Server Error", message))

\* what a request that ended in a catch keeps: where it threw and with what
Thrown(loc, message) == [op |-> "throw", at |-> loc, message |-> message]

\* handleGetContent, line 82 rejects: rethrown at line 107, caught by fetch
\* at line 55; the mapping read so far is dropped
GetContentReadFails(c) ==
    /\ worker = "content"
    /\ cl[c].pc = "read"
    /\ \E message \in StoreErrorMessages :
         cl' = [cl EXCEPT ![c] =
                  Done(cl[c].req, Thrown(cl[c].loc, message),
                       CatchResponse(message), cl[c].calls + 1)]
    /\ UNCHANGED <<worker, env, kv, written, bucket>>

\* handleUpdateContent, line 184 rejects: caught at line 199
UpdateContentPutFails(c) ==
    /\ worker = "content"
    /\ cl[c].pc = "put"
    /\ \E message \in StoreErrorMessages :
         cl' = [cl EXCEPT ![c] =
                  Done(cl[c].req, Thrown(cl[c].loc, message),
                       CatchResponse(message), cl[c].calls + 1)]
    /\ UNCHANGED <<worker, env, kv, written, bucket>>

\* handleUpload, line 82 rejects: caught at line 115
UploadPutFails(c) ==
    /\ worker = "upload"
    /\ cl[c].pc = "r2put"
    /\ \E message \in StoreErrorMessages :
         cl' = [cl EXCEPT ![c] =
                  Done(cl[c].req, Thrown(cl[c].loc, message),
                       [CatchResponse(message) EXCEPT !.cors = uploadCorsHeaders],
                       cl[c].calls + 1)]
    /\ UNCHANGED <<worker, env, kv, written, bucket>>

(***************************************************************************)
(* What clients send.                                                      *)
(***************************************************************************)
GoodToken == "s3cret"
WrongToken == "guess"

ContentRequest(method, path, x, a, body) ==
    [method |-> method, path |-> path, xAdminToken |-> x, authorization |-> a,
     body |-> body]

\* the values of the x-admin-token and of the Authorization header
XAdminTokenValues ==
    {Absent, Str(<<>>), Str(<<GoodToken>>), Str(<<WrongToken>>)}
AuthorizationValues ==
    {Absent, Str(<<"Bearer", GoodToken>>), Str(<<"bearer", GoodToken>>),
     Str(<<"Bearer", WrongToken>>)}

\* the JSON values sent as data: every kind, falsy and truthy
DataValues ==
    {JNull, JBool(FALSE), JBool(TRUE), JNum(0), JNum(1), JStr(""), JStr("a"),
     JArr(<<>>),
     JObj(<<Member("title", JStr("Test")),
            Member("team", JArr(<<JNum(1), JNull>>))>>)}

UpdateBody(section, data) ==
    JObj(<<Member("section", JStr(section)), Member("data", data)>>)

\* request bodies: JSON texts of update objects, of objects that lack a
\* field, of null, and a text that is no JSON
BodyValues ==
    {UpdateBody("team", d) : d \in DataValues}
    \cup {UpdateBody("general", JStr("a")), UpdateBody("sponsors", JStr("a")),
          UpdateBody("sponsors", JNum(0)),
          UpdateBody("", JStr("a")),
          JObj(<<Member("section", JStr("team"))>>),
          JObj(<<Member("data", JStr("a"))>>),
          JNull}
MalformedBody == <<"{", Quote, "section", Quote>>
Bodies == {JSONStringify(v) : v \in BodyValues} \cup {MalformedBody}

\* bodies that probe each way out of the handler: accepted, no JSON, a
\* section outside the whitelist, a falsy data
ProbeBodies ==
    {JSONStringify(UpdateBody("team", JStr("a"))),
     MalformedBody,
     JSONStringify(UpdateBody("sponsors", JStr("a"))),
     JSONStringify(UpdateBody("team", JNum(0)))}

\* every pair of header values with the probe bodies, and every body with
\* no header and with the good token in x-admin-token
UpdateRequests ==
    {ContentRequest("POST", "/content/update", x, a, b) :
        x \in XAdminTokenValues, a \in AuthorizationValues, b \in ProbeBodies}
    \cup
    {ContentRequest("POST", "/content/update", x, Absent, b) :
        x \in {Absent, Str(<<GoodToken>>)}, b \in Bodies}

OtherContentRequests ==
    {ContentRequest("GET", "/content", Absent, Absent, <<>>),
     ContentRequest("GET", "/content/update", Absent, Absent, <<>>),
     ContentRequest("POST", "/content", Absent, Absent,
                    JSONStringify(UpdateBody("team", JStr("a")))),
     ContentRequest("OPTIONS", "/content", Absent, Absent, <<>>),
     ContentRequest("OPTIONS", "/content/update", Str(<<WrongToken>>), Absent,
                    JSONStringify(UpdateBody("team", JStr("a")))),
     ContentRequest("OPTIONS", "/nowhere", Absent, Absent, <<>>)}

ContentRequests == UpdateRequests \cup OtherContentRequests

\* the requests of the runs with clients in flight together
FewContentRequests ==
    {ContentRequest("POST", "/content/update", Str(<<GoodToken>>), Absent,
                    JSONStringify(UpdateBody(s, d))) :
        s \in {"general", "team"}, d \in {JStr("a"), JArr(<<>>)}}
    \cup
    {ContentRequest("POST", "/content/update", Absent, Absent,
                    JSONStringify(UpdateBody("team", JStr("a")))),
     ContentRequest("GET", "/content", Absent, Absent, <<>>),
     ContentRequest("OPTIONS", "/content", Absent, Absent, <<>>),
     ContentRequest("GET", "/nowhere", Absent, Absent, <<>>)}

UploadRequest(method, path, form) ==
    [method |-> method, path |-> path, form |-> form]

Form(file) == [ok |-> TRUE, file |-> file]
NotAForm == [ok |-> FALSE, file |-> NoField]

Files ==
    {File(<<"photo", ".", "png">>, "image/png", "bytes-1"),
     File(<<"photo", ".", "png">>, "image/png", "bytes-2"),
     File(<<"README">>, "text/plain", "bytes-1")}

UploadRequests ==
    {UploadRequest("POST", "/upload", Form(f)) : f \in Files}
    \cup {UploadRequest("POST", "/upload", Form(NoField)),
          UploadRequest("POST", "/upload", Form(TextField(""))),
          UploadRequest("POST", "/upload", Form(TextField("photo.png"))),
          UploadRequest("POST", "/", NotAForm),
          UploadRequest("OPTIONS", "/upload", Form(NoField)),
          UploadRequest("OPTIONS", "/anything", NotAForm),
          UploadRequest("GET", "/upload", NotAForm)}

Envs ==
    [worker : {"content"},
     ADMIN_TOKEN : {Absent, Str(<<GoodToken>>)},
     R2_PUBLIC_URL : {Absent}, CLOUDFLARE_ACCOUNT_ID : {Absent}]
    \cup
    [worker : {"upload"},
     ADMIN_TOKEN : {Absent},
     R2_PUBLIC_URL : {Absent, Str(<<"https://cdn.example.com/">>)},
     CLOUDFLARE_ACCOUNT_ID : {Absent, Str(<<"acct123">>)}]

Init ==
    /\ env \in Envs
    /\ worker = env.worker
    /\ kv = <<>>
    /\ written = <<>>
    /\ bucket = <<>>
    /\ cl = [c \in Clients |-> IdleClient]

Step(c, contentRequests, uploadRequests) ==
    \/ \E r \in contentRequests : ContentOptions(c, r)
    \/ \E r \in contentRequests : GetContentStart(c, r)
    \/ GetContentRead(c)
    \/ \E r \in contentRequests : UpdateContentStart(c, r)
    \/ UpdateContentPut(c)
    \/ \E r \in contentRequests : ContentNotFound(c, r)
    \/ \E r \in uploadRequests : UploadOptions(c, r)
    \/ \E r \in uploadRequests : UploadMethodNotAllowed(c, r)
    \/ \E r \in uploadRequests : UploadStart(c, r)
    \/ UploadPut(c)

FewUploadRequests ==
    {UploadRequest("POST", "/upload", Form(f)) : f \in Files}
    \cup {UploadRequest("POST", "/upload", Form(NoField)),
          UploadRequest("POST", "/upload", Form(TextField("photo.png"))),
          UploadRequest("POST", "/", NotAForm),
          UploadRequest("OPTIONS", "/upload", Form(NoField)),
          UploadRequest("GET", "/upload", NotAForm)}

\* clients in flight together, a few requests
Next == \E c \in Clients : Step(c, FewContentRequests, FewUploadRequests)

Spec == Init /\ [][Next]_vars

\* one client, every request
NextOne == Step(1, ContentRequests, UploadRequests)

SpecOne == Init /\ [][NextOne]_vars

\* one client, every request, and store calls that may reject
NextOneFaults ==
    \/ Step(1, ContentRequests, UploadRequests)
    \/ GetContentReadFails(1)
    \/ UpdateContentPutFails(1)
    \/ UploadPutFails(1)

SpecOneFaults == Init /\ [][NextOneFaults]_vars

(***************************************************************************)
(* The claims.                                                             *)
(***************************************************************************)
IsGetContent(r) == r.method = "GET" /\ r.path = "/content"
IsUpdate(r) == r.method = "POST" /\ r.path = "/content/update"

\* the response of client c, read as JSON by the client
ResponseJson(c) == JSONParse(cl[c].resp.body).val

NestedDoc ==
    JObj(<<Member("title", JStr("Test")),
           Member("team", JArr(<<JNum(1), JNull>>))>>)

Configured == StrTruthy(env.ADMIN_TOKEN)

\* header h carries token tok, bare or after a Bearer scheme
Carries(h, tok) ==
    /\ h.present
    /\ \/ h.words = <<tok>>
       \/ /\ Len(h.words) = 2
          /\ h.words[1] \in {"Bearer", "bearer", "BEARER"}
          /\ h.words[2] = tok

\* header h carries some token
CarriesAny(h) == h.present /\ h.words # <<>>

\* the request carries the configured token in one of its headers, and no
\* other token in the other
PresentsToken(r) ==
    LET tok == env.ADMIN_TOKEN.words[1] IN
    /\ \/ r.xAdminToken = Str(<<tok>>)
       \/ r.authorization = Str(<<"Bearer", tok>>)
    /\ CarriesAny(r.xAdminToken) => Carries(r.xAdminToken, tok)
    /\ CarriesAny(r.authorization) => Carries(r.authorization, tok)

\* no header of the request carries the configured token
LacksToken(r) ==
    LET tok == env.ADMIN_TOKEN.words[1] IN
    ~Carries(r.xAdminToken, tok) /\ ~Carries(r.authorization, tok)

\* client c took a step that handled its request
Handled(c) == cl'[c] # cl[c]

Whitelist == {"general", "about", "events", "gallery", "team"}

HasMember(v, key) ==
    v.t = "obj" /\ \E i \in 1..Len(v.members) : v.members[i].k = key

\* a JSON error body: an object with the members error and message
IsErrorJson(resp) ==
    /\ resp.contentType = "application/json"
    /\ JSONParse(resp.body).ok
    /\ HasMember(JSONParse(resp.body).val, "error")
    /\ HasMember(JSONParse(resp.body).val, "message")

\* C2: with a credential configured, an update request none of whose headers
\* carries the configured token is answered 401 in the step that receives
\* it, whatever its body; the handler makes no store call and the store is
\* left as it was.
C2_UnauthorizedRejected ==
    [][\A c \in Clients :
        ( /\ worker = "content"
          /\ Handled(c)
          /\ IsUpdate(cl'[c].req)
          /\ Configured
          /\ LacksToken(cl'[c].req) )
        => /\ cl'[c].pc = "done"
           /\ cl'[c].resp.status = 401
           /\ cl'[c].calls = 0
           /\ kv' = kv]_vars

\* a 401 for a well-formed update with a wrong token, the store holding a
\* section
C2_Witness ==
    \E c \in Clients :
        /\ worker = "content" /\ Configured
        /\ cl[c].pc = "done"
        /\ IsUpdate(cl[c].req)
        /\ cl[c].req.xAdminToken = Str(<<WrongToken>>)
        /\ LacksToken(cl[c].req)
        /\ cl[c].req.body = JSONStringify(UpdateBody("team", JStr("a")))
        /\ cl[c].resp.status = 401
        /\ DOMAIN kv # {}

\* the body of request r names a section and has a data field
SectionOf(r) == GetProp(JSONParse(r.body).val, "section")
DataOf(r) == GetProp(JSONParse(r.body).val, "data")
HasData(r) == JSONParse(r.body).ok /\ HasMember(JSONParse(r.body).val, "data")
HasSection(r) == JSONParse(r.body).ok /\ HasMember(JSONParse(r.body).val, "section")

\* C3 (as claimed): with a credential configured, an update that presents
\* the configured token in x-admin-token or as Authorization: Bearer, names
\* a whitelisted section and has a data field is answered 200 and the
\* section then holds the data.
C3_CorrectTokenSucceeds ==
    \A c \in Clients :
        ( /\ worker = "content" /\ Configured
          /\ cl[c].pc = "done"
          /\ IsUpdate(cl[c].req)
          /\ PresentsToken(cl[c].req)
          /\ HasSection(cl[c].req) /\ HasData(cl[c].req)
          /\ SectionOf(cl[c].req).t = "str"
          /\ SectionOf(cl[c].req).s \in Whitelist )
        => /\ cl[c].resp.status = 200
           /\ SectionOf(cl[c].req).s \in DOMAIN kv
           /\ kv[SectionOf(cl[c].req).s] = JSONStringify(DataOf(cl[c].req))

\* C4 (as claimed): an update whose section is outside the whitelist is
\* answered 400 and makes no store call.
C4_BadSectionIs400 ==
    \A c \in Clients :
        ( /\ worker = "content"
          /\ cl[c].pc = "done"
          /\ IsUpdate(cl[c].req)
          /\ HasSection(cl[c].req)
          /\ SectionOf(cl[c].req).t = "str"
          /\ SectionOf(cl[c].req).s \notin Whitelist )
        => cl[c].resp.status = 400 /\ cl[c].calls = 0

\* C4 (amended): an update whose section is outside the whitelist is
\* rejected in the step that receives it, with 401 when a credential is
\* configured and the request fails the token test and with 400 otherwise;
\* the handler makes no store call and the store is left as it was; and the
\* store never holds a key outside the whitelist.
C4_BadSectionRejected ==
    [][ /\ \A c \in Clients :
            ( /\ worker = "content"
              /\ Handled(c)
              /\ IsUpdate(cl'[c].req)
              /\ HasSection(cl'[c].req)
              /\ SectionOf(cl'[c].req).t = "str"
              /\ SectionOf(cl'[c].req).s \notin Whitelist )
            => /\ cl'[c].pc = "done"
               /\ cl'[c].resp.status =
                     IF Unauthorized(env, cl'[c].req) THEN 401 ELSE 400
               /\ cl'[c].calls = 0
               /\ kv' = kv
        /\ DOMAIN kv' \subseteq Whitelist ]_vars

\* a 400 for an update of "sponsors", the store holding a section
C4_Witness ==
    \E c \in Clients :
        /\ worker = "content"
        /\ cl[c].pc = "done"
        /\ IsUpdate(cl[c].req)
        /\ cl[c].req.body = JSONStringify(UpdateBody("sponsors", JStr("a")))
        /\ cl[c].resp.status = 400
        /\ DOMAIN kv # {}

Authorized(r) == ~Configured \/ r.xAdminToken = env.ADMIN_TOKEN

\* C6 (as claimed): an authorized update whose body is no JSON, or lacks
\* the section or the data field, is answered 400 with a JSON error body
\* and makes no store call.
C6_BadBodyIs400 ==
    \A c \in Clients :
        ( /\ worker = "content"
          /\ cl[c].pc = "done"
          /\ IsUpdate(cl[c].req)
          /\ Authorized(cl[c].req)
          /\ ~(HasSection(cl[c].req) /\ HasData(cl[c].req)) )
        => /\ cl[c].resp.status = 400
           /\ IsErrorJson(cl[c].resp)
           /\ cl[c].calls = 0

\* C7 (as claimed): an authorized update of a whitelisted section whose
\* data is any object, array, string, number or boolean is answered 200
\* and the section then holds that value.
C7_AnyDataAccepted ==
    \A c \in Clients : \A s \in Whitelist : \A d \in DataValues \ {JNull} :
        ( /\ worker = "content"
          /\ cl[c].pc = "done"
          /\ IsUpdate(cl[c].req)
          /\ Authorized(cl[c].req)
          /\ cl[c].req.body = JSONStringify(UpdateBody(s, d)) )
        => /\ cl[c].resp.status = 200
           /\ s \in DOMAIN kv
           /\ kv[s] = JSONStringify(d)

\* C8: an upload whose form has no file field is answered 400 in the step
\* that receives it; the handler makes no store call and the bucket is left
\* as it was.
C8_NoFileRejected ==
    [][\A c \in Clients :
        ( /\ worker = "upload"
          /\ Handled(c)
          /\ cl'[c].req.method = "POST"
          /\ cl'[c].req.form.ok
          /\ cl'[c].req.form.file = NoField )
        => /\ cl'[c].pc = "done"
           /\ cl'[c].resp.status = 400
           /\ cl'[c].calls = 0
           /\ bucket' = bucket]_vars

\* a 400 for a form without a file, the bucket holding an object
C8_Witness ==
    \E c \in Clients :
        /\ worker = "upload"
        /\ cl[c].pc = "done"
        /\ cl[c].req.method = "POST"
        /\ cl[c].req.form = Form(NoField)
        /\ cl[c].resp.status = 400
        /\ DOMAIN bucket # {}

\* client c holds the 200 of an upload
Uploaded(c) ==
    /\ worker = "upload"
    /\ cl[c].pc = "done"
    /\ cl[c].loc.op = "upload"
    /\ cl[c].resp.status = 200

C10_OptionsAnswered ==
    [][\A c \in Clients :
        (Handled(c) /\ cl'[c].req.method = "OPTIONS")
        => /\ cl'[c].pc = "done"
           /\ cl'[c].resp.status = 200
           /\ cl'[c].resp.body = <<>>
           /\ cl'[c].resp.cors.allowOrigin = "*"
           /\ cl'[c].calls = 0
           /\ kv' = kv
           /\ bucket' = bucket]_vars

\* an OPTIONS with a wrong token to /content/update, a credential being
\* configured and the store holding a section
C10_Witness ==
    \E c \in Clients :
        /\ worker = "content" /\ Configured
        /\ cl[c].pc = "done"
        /\ cl[c].req.method = "OPTIONS"
        /\ cl[c].req.path = "/content/update"
        /\ cl[c].req.xAdminToken = Str(<<WrongToken>>)
        /\ cl[c].resp.status = 200
        /\ DOMAIN kv # {}

\* client c holds a response with an error status
HoldsError(c) == cl[c].pc = "done" /\ cl[c].resp.status >= 400

\* the response is the plain text `text`
IsText(resp, text) == resp.contentType = "text/plain" /\ resp.body = <<text>>

\* C11 (as claimed): every response with an error status has status 400,
\* 401, 404 or 500 and a JSON body with error and message, but for the
\* plain-text 404.
C11_ErrorsAreJsonBut404 ==
    \A c \in Clients :
        HoldsError(c)
        => /\ cl[c].resp.status \in {400, 401, 404, 500}
           /\ \/ IsErrorJson(cl[c].resp)
              \/ cl[c].resp.status = 404 /\ IsText(cl[c].resp, "Not Found")

\* C11 (amended): every response with an error status, store failures
\* included, has status 400, 401, 404, 405 or 500.  404 is the Content API's
\* answer to an unmatched route and 405 the uploader's answer to a method
\* other than POST and OPTIONS; both are plain text, and no other request of
\* that worker gets them.  Every other error response is a JSON object with
\* error and message.
C11_ErrorsAreJsonBut404And405 ==
    \A c \in Clients :
        HoldsError(c)
        => LET r == cl[c].req
               resp == cl[c].resp
               unmatched == /\ worker = "content"
                            /\ ~IsGetContent(r) /\ ~IsUpdate(r)
               notAllowed == /\ worker = "upload"
                             /\ r.method # "POST"
           IN  /\ resp.status \in {400, 401, 404, 405, 500}
               /\ r.method # "OPTIONS"
               /\ resp.status = 404 <=> unmatched
               /\ resp.status = 405 <=> notAllowed
               /\ unmatched => IsText(resp, "Not Found")
               /\ notAllowed => IsText(resp, "Method Not Allowed")
               /\ ~unmatched /\ ~notAllowed => IsErrorJson(resp)

\* a 500 of the uploader after its bucket call rejected
C11_Witness ==
    \E c \in Clients :
        /\ worker = "upload"
        /\ HoldsError(c)
        /\ cl[c].loc.op = "throw"
        /\ cl[c].resp.status = 500
        /\ IsErrorJson(cl[c].resp)

\* client c holds the acknowledgment of an update
Updated(c) ==
    /\ worker = "content"
    /\ cl[c].pc = "done"
    /\ cl[c].loc.op = "update"
    /\ cl[c].resp.status = 200

\* the document of the update request with body text
DocOf(text) == GetProp(JSONParse(text).val, "data")

\* C12: last write wins.  A put that completes makes its section hold its
\* own document whole, whatever the section held and whichever updates of
\* the section are still in flight; it changes no other section, and the
\* updates in flight stay in flight with their own documents (none is
\* refused, queued behind it or merged).  Hence every section holds exactly
\* the document of the update whose put completed last, and a fetch that
\* read the section after that put returns that document.
C12_LastWriteWins ==
    [][ /\ \A c \in Clients :
            ( /\ worker = "content"
              /\ cl[c].pc = "put"
              /\ cl'[c].pc = "done" /\ cl'[c].resp.status = 200 )
            => LET s == cl[c].loc.section IN
               /\ s \in DOMAIN kv'
               /\ kv'[s] = JSONStringify(cl[c].loc.data)
               /\ \A k \in DOMAIN kv \ {s} : k \in DOMAIN kv' /\ kv'[k] = kv[k]
               /\ \A d \in Clients \ {c} :
                    PutInFlight(cl[d], s)
                    => /\ PutInFlight(cl'[d], s)
                       /\ cl'[d].req = cl[d].req
                       /\ cl'[d].loc.data = cl[d].loc.data
        /\ \A s \in DOMAIN kv : kv[s] = JSONStringify(DocOf(written[s]))
        /\ \A c \in Clients : \A s \in DOMAIN kv :
            ( /\ cl[c].pc = "done" /\ IsGetContent(cl[c].req)
              /\ s \notin cl[c].loc.stale )
            => GetProp(ResponseJson(c), s) = DocOf(written[s])
      ]_vars

\* two updates of "team" with different documents that overlapped, both
\* acknowledged; the section holds the document of the one that wrote last
C12_Witness ==
    \E c, d \in Clients :
        /\ c # d /\ Updated(c) /\ Updated(d)
        /\ cl[c].loc.section = "team" /\ cl[d].loc.section = "team"
        /\ cl[c].loc.overlapped /\ cl[d].loc.overlapped
        /\ cl[c].loc.data # cl[d].loc.data
        /\ written["team"] = cl[d].req.body
        /\ kv["team"] = JSONStringify(cl[d].loc.data)

\* client c's store call rejects in this step
StoreCallFails(c) == Handled(c) /\ cl'[c].loc.op = "throw"

\* C13: a store call that rejects ends the request with 500 and a JSON body
\* of exactly error and message, the message being that of the rejection.
\* This holds for the put of an update (no acknowledgment; every section
\* keeps its stored value), for each of the five reads of a fetch (nothing
\* of the mapping read so far is returned), and for the put of an upload.
C13_StoreFailureIs500 ==
    [][\A c \in Clients :
        StoreCallFails(c)
        => LET resp == cl'[c].resp
               json == JSONParse(resp.body)
           IN  /\ cl[c].pc \in {"read", "put", "r2put"}
               /\ cl'[c].pc = "done"
               /\ resp.status = 500
               /\ resp.contentType = "application/json"
               /\ json.ok
               /\ json.val = ErrorBody("Internal Server Error",
                                       cl'[c].loc.message)
               /\ kv' = kv
               /\ bucket' = bucket]_vars

\* a fetch whose read of a later key rejected after it had read a stored
\* section: 500, the section read is not in the response
C13_Witness ==
    \E c \in Clients :
        /\ worker = "content"
        /\ cl[c].pc = "done"
        /\ IsGetContent(cl[c].req)
        /\ cl[c].loc.op = "throw"
        /\ cl[c].loc.at.content # <<>>
        /\ cl[c].resp.status = 500
        /\ ~HasMember(ResponseJson(c), "general")
        /\ "general" \in DOMAIN kv

\* the file name has an extension: a "." with something after it
HasExtension(name) == Len(split(name)) >= 2 /\ pop(split(name)) # ""

\* the public base of the deployment: the configured one, else the one
\* derived from the account identifier
PublicBase ==
    IF StrTruthy(env.R2_PUBLIC_URL) THEN env.R2_PUBLIC_URL.words[1]
    ELSE IF StrTruthy(env.CLOUDFLARE_ACCOUNT_ID)
    THEN "https://pub-" \o env.CLOUDFLARE_ACCOUNT_ID.words[1] \o ".r2.dev/"
    ELSE "https://pub-YOUR-ACCOUNT-ID.r2.dev/"

\* C14 (as claimed): for every successful upload the returned filename is
\* {epoch-millis}-{random-uuid}.{extension of the original name}, the
\* uploaded content is in the bucket under it, and the returned URL is the
\* public base followed by that filename.
C14_FilenameAndUrl ==
    \A c \in Clients :
        Uploaded(c)
        => LET f == cl[c].req.form.file
               key == GetProp(ResponseJson(c), "filename")
               url == GetProp(ResponseJson(c), "url")
           IN  /\ HasExtension(f.name)
               /\ key = JStr(ToString(cl[c].loc.timestamp) \o "-"
                             \o cl[c].loc.randomId \o "."
                             \o pop(split(f.name)))
               /\ key.s \in DOMAIN bucket
               /\ bucket[key.s].body = f.content
               /\ url = JStr(PublicBase \o key.s)

\* client c holds the 200 of a fetch
Fetched(c) ==
    /\ worker = "content"
    /\ cl[c].pc = "done"
    /\ cl[c].loc.op = "get"
    /\ cl[c].resp.status = 200

\* the value a mapping under construction has for key s, Undefined if none
Entry(content, s) == GetProp(JObj(content), s)

\* C15: the fetch reads its five keys in five steps, and updates may take
\* effect between them.  The value the mapping gets for a key is the value
\* the store holds for the key at the step that reads it, an instant between
\* the start and the end of the fetch (a key the store does not hold then is
\* left out); no later step changes it, and the response is the mapping so
\* built.  (That the mapping as a whole need not be the store's contents at
\* any one instant is shown by the reachable state C15_Witness.)
C15_FetchValuesWereHeld ==
    [][\A c \in Clients :
        (worker = "content" /\ cl[c].pc = "read" /\ cl'[c].loc.op = "get")
        => LET k == cl[c].loc.k
               before == cl[c].loc.content
               after == cl'[c].loc.content
           IN  /\ \A i \in 1..k : Entry(after, sections[i]) = Entry(before, sections[i])
               /\ cl'[c].loc.k \in {k, k + 1}
               /\ cl'[c].loc.k = k + 1
                    => Entry(after, sections[k + 1])
                         = IF sections[k + 1] \in DOMAIN kv
                           THEN JSONParse(kv[sections[k + 1]]).val
                           ELSE Undefined
               /\ cl'[c].loc.k = k => after = before
               /\ cl'[c].pc = "done"
                    => /\ cl'[c].loc.k = Len(sections)
                       /\ cl'[c].resp.status = 200
                       /\ JSONParse(cl'[c].resp.body).val = JObj(after)]_vars

\* a fetch during which sections were written, whose mapping is not the
\* store's contents at any instant of the fetch: it has the later write
\* ("team") and lacks the earlier one ("general")
C15_Witness ==
    \E c \in Clients :
        /\ Fetched(c)
        /\ cl[c].loc.torn
        /\ KeysOf(ResponseJson(c)) = {"team"}
        /\ DOMAIN kv = {"general", "team"}

\* client c's update request is received in this step
Received(c) ==
    /\ worker = "content"
    /\ cl[c].pc \in {"idle", "done"}
    /\ Handled(c)
    /\ IsUpdate(cl'[c].req)

\* the request passes the token test: no credential is configured, or a
\* header carries the configured token
PassesToken(r) == ~Configured \/ ~LacksToken(r)

\* the body is a JSON object with a truthy section and a truthy data
PassesPresence(r) ==
    /\ JSONParse(r.body).ok
    /\ JSONParse(r.body).val.t = "obj"
    /\ Truthy(SectionOf(r)) /\ Truthy(DataOf(r))

\* the section is one of the five names
PassesWhitelist(r) == SectionOf(r).t = "str" /\ SectionOf(r).s \in Whitelist

\* the message of the JSON error body of a response
MessageOf(resp) == GetProp(JSONParse(resp.body).val, "message").s

\* C16: the update handler tests the token, then the presence of section
\* and data, then the whitelist, then makes its one store write.  With a
\* credential configured a request without the token gets 401 whatever its
\* body (malformed, incomplete, invalid section); a 400 is only given to a
\* request that passed the token test, and the 400 for an invalid section
\* only to one that also passed the presence test; a request that fails the
\* presence test gets the missing-fields 400 even if its section is invalid;
\* the store write is reached, without an earlier store call, only by a
\* request that passed all three tests, and it is the request's only store
\* call.
C16_CheckOrder ==
    [][\A c \in Clients :
        /\ Received(c)
           => LET r == cl'[c].req
                  resp == cl'[c].resp
                  done == cl'[c].pc = "done"
              IN  /\ cl'[c].calls = 0 /\ kv' = kv
                  /\ (Configured /\ LacksToken(r))
                       => done /\ resp.status = 401
                  /\ (done /\ resp.status = 400)
                       => PassesToken(r) /\ JSONParse(r.body).ok
                  /\ (done /\ resp.status = 400 /\ PassesPresence(r))
                       => ~PassesWhitelist(r)
                  /\ ( /\ (~Configured \/ PresentsToken(r))
                       /\ JSONParse(r.body).ok
                       /\ JSONParse(r.body).val.t = "obj"
                       /\ ~PassesPresence(r) )
                       => /\ done /\ resp.status = 400
                          /\ MessageOf(resp) = "Missing required fields: section and data"
                  /\ cl'[c].pc = "put"
                       => PassesToken(r) /\ PassesPresence(r) /\ PassesWhitelist(r)
                  /\ cl'[c].pc \in {"done", "put"}
        /\ (worker = "content" /\ cl[c].pc = "put" /\ Handled(c) /\ cl'[c].pc # "put")
           => cl'[c].pc = "done" /\ cl'[c].calls = 1]_vars

\* a 401 for a request with a wrong token whose body is not JSON
C16_Witness ==
    \E c \in Clients :
        /\ worker = "content" /\ Configured
        /\ cl[c].pc = "done"
        /\ IsUpdate(cl[c].req)
        /\ cl[c].req.xAdminToken = Str(<<WrongToken>>)
        /\ LacksToken(cl[c].req)
        /\ cl[c].req.body = MalformedBody
        /\ cl[c].resp.status = 401
====
